---- MODULE Spec2Model ----
(***************************************************************************)
(* A model of the stocking engine of app.py: the catalog normalizer        *)
(* (load_fish_data), the selection resolver and the /compute and           *)
(* /download_report handlers, and the pure helpers they call               *)
(* (pairwise_compatibility_matrix, compute_range_overlap,                  *)
(* estimate_tank_size_litres, collect_warnings).                           *)
(*                                                                         *)
(* Numbers.  Python floats are held as integers: lengths and volumes in    *)
(* whole units, range bounds in tenths (pH 6.5 is 65).  The estimator's    *)
(* arithmetic is carried out in 1/200 of a volume unit, which makes        *)
(* 0.5 * adult_size * waste_factor and 0.15 * base exact.                  *)
(*                                                                         *)
(* Text.  A text that the code parses (a count, a raw JSON string) is a    *)
(* sequence of one-character strings; a text that the code only searches   *)
(* (name, temperament) is a string with the search given by a table.       *)
(***************************************************************************)
EXTENDS Integers, Sequences, FiniteSets, TLC

VARIABLES
    fish_file,        \* static/fish_data.json: a sequence of raw items
    session,          \* session["last_report"], or NoReport
    response,         \* what the last request returned
    request,          \* the last request: its route and form
    fishes,           \* argument of pairwise_compatibility_matrix
    matrix,           \* its result
    score,            \* the score computed from matrix
    ranges,           \* argument of compute_range_overlap
    overlap,          \* its result
    fishes_expanded,  \* argument of estimate_tank_size_litres
    tank_l,           \* its result
    prev_tank_l,      \* its result before the last individual was added
    form,             \* a submitted form: fish_ids[] and fish_counts[]
    resolved,         \* the resolver's result for form
    selection,        \* selected_species handed to collect_warnings, with matrix
    shared,           \* the overlaps handed to collect_warnings
    warnings,         \* its result
    pc                \* where a run of one of the helpers stands

ServerVars == <<fish_file, session, response, request>>
MatrixVars == <<fishes, matrix, score>>
OverlapVars == <<ranges, overlap>>
TankVars == <<fishes_expanded, tank_l, prev_tank_l>>
ResolverVars == <<form, resolved>>
WarningVars == <<selection, shared, warnings>>

vars == <<ServerVars, MatrixVars, OverlapVars, TankVars, ResolverVars, WarningVars, pc>>

-----------------------------------------------------------------------------
(* Bounds of the model *)

MaxRows == 3        \* rows of a selection handed to the matrix builder
MaxRanges == 3      \* intervals handed to compute_range_overlap
MaxRangeVal == 2    \* interval ends are drawn from 0..MaxRangeVal
MaxFish == 2        \* individuals handed to the volume estimator
MaxEntries == 2     \* entries of a form handed to the resolver
MaxForm == 1        \* entries of a form submitted to a handler

-----------------------------------------------------------------------------
(* Python values *)

PyNone == [t |-> "none"]
PyNum(n) == [t |-> "num", v |-> n]
PyStr(s) == [t |-> "str", v |-> s]      \* a str the code searches or compares
PyText(c) == [t |-> "text", v |-> c]    \* a str the code parses: its characters
PyBool(b) == [t |-> "bool", v |-> b]
PyList(l) == [t |-> "list", v |-> l]

RECURSIVE SeqsUpTo(_, _)
SeqsUpTo(S, n) ==
    IF n = 0 THEN {<<>>}
    ELSE LET shorter == SeqsUpTo(S, n - 1)
         IN  shorter \cup {Append(s, x) : s \in {t \in shorter : Len(t) = n - 1}, x \in S}

Range(s) == {s[k] : k \in DOMAIN s}

\* x in list
In(x, list) == \E k \in DOMAIN list : list[k] = x

Max2(a, b) == IF a >= b THEN a ELSE b
Min2(a, b) == IF a <= b THEN a ELSE b

-----------------------------------------------------------------------------
(* Texts the code searches.  str.lower() followed by a substring test is    *)
(* given by the set of the model's texts on which the test succeeds.        *)

Names == {"Betta", "Goldfish", "Neon Tetra", "Oscar"}
Temperaments == {"Peaceful", "Aggressive", "Semi-aggressive", "Unknown"}

\* "aggressive" in temperament.lower()
ContainsAggressive(temperament) == temperament \in {"Aggressive", "Semi-aggressive"}

\* any(x in name.lower() for x in ["goldfish", "oscar", "koi", "pleco"])
ContainsHeavyWaste(name) == name \in {"Goldfish", "Oscar"}

\* Python's order on str (by code point), on the model's names
NameRank(name) ==
    CASE name = "Betta" -> 1
      [] name = "Goldfish" -> 2
      [] name = "Neon Tetra" -> 3
      [] name = "Oscar" -> 4

\* bool(v) of an optional number: None and 0.0 are false
Truthy(x) == x.t = "num" /\ x.v # 0

-----------------------------------------------------------------------------
(* pairwise_compatibility_matrix *)

Unset == "None"

\* as MatrixCell, but the first test looks at one list only
MatrixCellOneWay(fs, i, j) ==
    IF i = j THEN "self"
    ELSE IF In(fs[j].id, fs[i].compatibility) THEN "compatible"
    ELSE IF In(fs[i].id, fs[j].compatibility) THEN "semi-compatible"
    ELSE "incompatible"

\* as MatrixCell, but without the final else: the cell keeps its initial None
MatrixCellNoElse(fs, i, j) ==
    IF i = j THEN "self"
    ELSE IF In(fs[j].id, fs[i].compatibility) /\ In(fs[i].id, fs[j].compatibility)
         THEN "compatible"
    ELSE IF In(fs[j].id, fs[i].compatibility) \/ In(fs[i].id, fs[j].compatibility)
         THEN "semi-compatible"
    ELSE Unset

MatrixCell(fs, i, j) ==
    IF i = j THEN "self"
    ELSE LET id_i == fs[i].id
             id_j == fs[j].id
             i_list == fs[i].compatibility
             j_list == fs[j].compatibility
         IN  IF In(id_j, i_list) /\ In(id_i, j_list) THEN "compatible"
             ELSE IF In(id_j, i_list) \/ In(id_i, j_list) THEN "semi-compatible"
             ELSE "incompatible"

pairwise_compatibility_matrix(fs) ==
    [i \in 1..Len(fs) |-> [j \in 1..Len(fs) |-> MatrixCell(fs, i, j)]]

-----------------------------------------------------------------------------
(* compute_range_overlap *)

\* max(...) and min(...) over a non-empty sequence, left to right
RECURSIVE PyMaxFrom(_, _, _)
PyMaxFrom(s, k, best) ==
    IF k > Len(s) THEN best
    ELSE PyMaxFrom(s, k + 1, IF s[k] > best THEN s[k] ELSE best)
PyMax(s) == PyMaxFrom(s, 2, s[1])

RECURSIVE PyMinFrom(_, _, _)
PyMinFrom(s, k, best) ==
    IF k > Len(s) THEN best
    ELSE PyMinFrom(s, k + 1, IF s[k] < best THEN s[k] ELSE best)
PyMin(s) == PyMinFrom(s, 2, s[1])

\* as compute_range_overlap, but the bounds of the first interval stand for all
compute_range_overlap_first(rs) ==
    LET low == PyMax(<<rs[1][1]>>)
        high == PyMin([k \in DOMAIN rs |-> rs[k][2]])
    IN  <<low, high, low <= high>>

compute_range_overlap(rs) ==
    LET low == PyMax([k \in DOMAIN rs |-> rs[k][1]])
        high == PyMin([k \in DOMAIN rs |-> rs[k][2]])
    IN  <<low, high, low <= high>>

-----------------------------------------------------------------------------
(* estimate_tank_size_litres, in 1/200 of a volume unit until the rounding *)

DefaultBase == 10
DefaultAdult == 5

\* 100 * waste_factor
WasteFactor(f) ==
    100 + (IF ContainsAggressive(f.temperament) THEN 25 ELSE 0)
        + (IF ContainsHeavyWaste(f.name) THEN 60 ELSE 0)

\* 200 * per_fish * waste_factor
PerFish(f) ==
    LET adult_cm == IF Truthy(f.adult_size) THEN f.adult_size.v ELSE DefaultAdult
    IN  adult_cm * WasteFactor(f)

RECURSIVE ExtraFrom(_, _, _)
ExtraFrom(fe, k, extra) ==
    IF k > Len(fe) THEN extra ELSE ExtraFrom(fe, k + 1, extra + PerFish(fe[k]))

TankBase(fe) ==
    LET unique_min == SelectSeq([k \in DOMAIN fe |-> fe[k].min_tank_size], Truthy)
    IN  IF unique_min # <<>> THEN PyMax([k \in DOMAIN unique_min |-> unique_min[k].v])
        ELSE DefaultBase

\* math.ceil(x200 / 200 / 5.0) * 5
CeilToFive(x200) == (0 - ((0 - x200) \div 1000)) * 5

\* as estimate_tank_size_litres, but without the 15% of base
estimate_tank_size_no_buffer(fe) ==
    CeilToFive(Max2(200 * TankBase(fe), ExtraFrom(fe, 1, 0)))

estimate_tank_size_litres(fe) ==
    LET base == TankBase(fe)
        extra == ExtraFrom(fe, 1, 0)
        recommended == Max2(200 * base, extra + 30 * base)
    IN  CeilToFive(recommended)

\* round(tank_l * 0.264172, 1), in tenths
TankGal(l) == (l * 264172 + 50000) \div 100000

-----------------------------------------------------------------------------
(* The score of compute() *)

\* as compute_score, but a semi-compatible pair counts as a whole pair
compute_score_whole(m, n) ==
    LET total_pairs == IF n > 1 THEN (n * (n - 1)) \div 2 ELSE 1
        upper == {p \in (1..n) \X (1..n) : p[1] < p[2]}
        pairs == Cardinality({p \in upper : m[p[1]][p[2]] \in {"compatible", "semi-compatible"}})
    IN  (100 * pairs) \div total_pairs

compute_score(m, n) ==
    LET total_pairs == IF n > 1 THEN (n * (n - 1)) \div 2 ELSE 1
        upper == {p \in (1..n) \X (1..n) : p[1] < p[2]}
        compatible_pairs == Cardinality({p \in upper : m[p[1]][p[2]] = "compatible"})
        semi_pairs == Cardinality({p \in upper : m[p[1]][p[2]] = "semi-compatible"})
    IN  IF total_pairs > 0
        THEN (100 * (2 * compatible_pairs + semi_pairs)) \div (2 * total_pairs)
        ELSE 100

-----------------------------------------------------------------------------
(* collect_warnings.  A warning text is held as a record of what the text  *)
(* is formatted from.                                                      *)

\* tuple(sorted([a, b]))
SortedPair(a, b) == IF NameRank(a) <= NameRank(b) THEN <<a, b>> ELSE <<b, a>>

\* p <= q on tuples of str
PairLeq(p, q) ==
    \/ NameRank(p[1]) < NameRank(q[1])
    \/ NameRank(p[1]) = NameRank(q[1]) /\ NameRank(p[2]) <= NameRank(q[2])

\* sorted(S) of a set of tuples
RECURSIVE SortedPairs(_)
SortedPairs(S) ==
    IF S = {} THEN <<>>
    ELSE LET least == CHOOSE p \in S : \A q \in S : PairLeq(p, q)
         IN  <<least>> \o SortedPairs(S \ {least})

GroupWarnings(selected_species) ==
    LET Needs(fish) == fish.schooling /\ fish.count < fish.min_group_size
        Warn(fish) == [kind |-> "group", name |-> fish.name,
                       min_group |-> fish.min_group_size, count |-> fish.count]
        short == SelectSeq(selected_species, Needs)
    IN  [k \in DOMAIN short |-> Warn(short[k])]

OverlapWarnings(overlaps) ==
    (IF ~overlaps.temperature[3] THEN <<[kind |-> "temperature"]>> ELSE <<>>)
    \o (IF ~overlaps.ph[3] THEN <<[kind |-> "ph"]>> ELSE <<>>)
    \o (IF ~overlaps.hardness[3] THEN <<[kind |-> "hardness"]>> ELSE <<>>)

\* as IncompatibleWarnings, but one entry per incompatible cell, its names in
\* row order
IncompatibleWarningsPerCell(selected_species, m) ==
    LET n == Len(selected_species)
        cells == SelectSeq([k \in 1..(n * n) |-> <<((k - 1) \div n) + 1, ((k - 1) % n) + 1>>],
                           LAMBDA q : q[1] < q[2] /\ m[q[1]][q[2]] = "incompatible")
    IN  IF cells # <<>>
        THEN <<[kind |-> "incompatible",
                pairs |-> [k \in DOMAIN cells |->
                             <<selected_species[cells[k][1]].name,
                               selected_species[cells[k][2]].name>>]]>>
        ELSE <<>>

IncompatibleWarnings(selected_species, m) ==
    LET n == Len(selected_species)
        incompatible_pairs ==
            {SortedPair(selected_species[p[1]].name, selected_species[p[2]].name) :
                p \in {q \in (1..n) \X (1..n) : q[1] < q[2] /\ m[q[1]][q[2]] = "incompatible"}}
    IN  IF incompatible_pairs # {}
        THEN <<[kind |-> "incompatible", pairs |-> SortedPairs(incompatible_pairs)]>>
        ELSE <<>>

AggressiveWarnings(selected_species) ==
    LET IsAggressive(f) == ContainsAggressive(f.temperament)
        hot == SelectSeq(selected_species, IsAggressive)
        aggressive == [k \in DOMAIN hot |-> hot[k].name]
    IN  IF Len(aggressive) > 1
        THEN <<[kind |-> "aggressive", names |-> aggressive]>>
        ELSE <<>>

\* as collect_warnings, but the parameter overlaps are looked at first
collect_warnings_overlaps_first(selected_species, m, overlaps) ==
    OverlapWarnings(overlaps)
    \o GroupWarnings(selected_species)
    \o IncompatibleWarnings(selected_species, m)
    \o AggressiveWarnings(selected_species)

collect_warnings(selected_species, m, overlaps) ==
    GroupWarnings(selected_species)
    \o OverlapWarnings(overlaps)
    \o IncompatibleWarnings(selected_species, m)
    \o AggressiveWarnings(selected_species)

-----------------------------------------------------------------------------
(* Conversions: int(), float(), str(), bool(), str.strip() *)

Raised == [t |-> "raised"]   \* the conversion raised an exception

DigitVal(c) ==
    CASE c = "0" -> 0 [] c = "1" -> 1 [] c = "2" -> 2 [] c = "3" -> 3 [] c = "4" -> 4
      [] c = "5" -> 5 [] c = "6" -> 6 [] c = "7" -> 7 [] c = "8" -> 8 [] c = "9" -> 9
      [] OTHER -> -1

RECURSIVE StripLeft(_)
StripLeft(c) == IF c # <<>> /\ Head(c) = " " THEN StripLeft(Tail(c)) ELSE c

RECURSIVE StripRight(_)
StripRight(c) ==
    IF c # <<>> /\ c[Len(c)] = " " THEN StripRight(SubSeq(c, 1, Len(c) - 1)) ELSE c

RECURSIVE DigitsValue(_, _)
DigitsValue(c, acc) ==
    IF c = <<>> THEN acc ELSE DigitsValue(Tail(c), 10 * acc + DigitVal(Head(c)))

\* int(text): blanks around, an optional sign, then one or more digits
IntOfText(c) ==
    LET body == StripRight(StripLeft(c))
        signed == body # <<>> /\ Head(body) \in {"-", "+"}
        digits == IF signed THEN Tail(body) ELSE body
    IN  IF digits = <<>> \/ \E k \in DOMAIN digits : DigitVal(digits[k]) < 0
        THEN Raised
        ELSE PyNum(IF signed /\ Head(body) = "-"
                   THEN 0 - DigitsValue(digits, 0) ELSE DigitsValue(digits, 0))

\* int(v)
PyInt(v) ==
    CASE v.t = "num" -> v
      [] v.t = "bool" -> PyNum(IF v.v THEN 1 ELSE 0)
      [] v.t = "text" -> IntOfText(v.v)
      [] OTHER -> Raised

\* float(v); the model's texts hold no point and no exponent
PyFloat(v) ==
    CASE v.t = "num" -> v
      [] v.t = "bool" -> PyNum(IF v.v THEN 1 ELSE 0)
      [] v.t = "text" -> IntOfText(v.v)
      [] OTHER -> Raised

\* bool(v)
PyTruthy(v) ==
    CASE v.t = "none" -> FALSE
      [] v.t = "num" -> v.v # 0
      [] v.t = "bool" -> v.v
      [] v.t = "str" -> v.v # ""
      [] v.t = "text" -> v.v # <<>>
      [] v.t = "list" -> v.v # <<>>

\* a or b
PyOr(a, b) == IF PyTruthy(a) THEN a ELSE b

\* str(v), on the values the model's ids take
PyStrOf(v) ==
    CASE v.t = "str" -> v.v
      [] v.t = "num" /\ v.v = 1 -> "1"
      [] v.t = "num" /\ v.v = 2 -> "2"
      [] v.t = "num" /\ v.v = 3 -> "3"

\* s.strip(), on the model's ids and names
Strip(s) == IF s = " " THEN "" ELSE s

-----------------------------------------------------------------------------
(* get_num, get_range, load_fish_data *)

\* item.get(key) and item.get(key, default)
Get(item, key) == IF key \in DOMAIN item THEN item[key] ELSE PyNone
GetOr(item, key, default) == IF key \in DOMAIN item THEN item[key] ELSE default

get_num(v, fallback) ==
    IF v.t = "none" THEN fallback
    ELSE IF PyFloat(v) = Raised THEN fallback ELSE PyFloat(v)

get_range(item, key, default) ==
    LET rng == PyOr(Get(item, key), Get(item, key))
        key_min == IF key = "temperature" THEN "temperature_min"
                   ELSE IF key = "ph" THEN "ph_min" ELSE "hardness_min"
        key_max == IF key = "temperature" THEN "temperature_max"
                   ELSE IF key = "ph" THEN "ph_max" ELSE "hardness_max"
        low == PyOr(get_num(Get(item, key_min), PyNone), get_num(Get(item, key_min), PyNone))
        high == PyOr(get_num(Get(item, key_max), PyNone), get_num(Get(item, key_max), PyNone))
    IN  IF rng.t = "list" /\ Len(rng.v) >= 2
        THEN IF PyFloat(rng.v[1]) = Raised \/ PyFloat(rng.v[2]) = Raised
             THEN default
             ELSE <<PyFloat(rng.v[1]).v, PyFloat(rng.v[2]).v>>
        ELSE IF low.t # "none" /\ high.t # "none" THEN <<low.v, high.v>>
        ELSE default

DefaultTemperature == <<220, 260>>
DefaultPh == <<65, 75>>
DefaultHardness == <<10, 120>>

ItemId(item) == Strip(PyStrOf(PyOr(PyOr(Get(item, "id"), Get(item, "ID")), PyStr(""))))
ItemName(item) == Strip(PyOr(PyOr(Get(item, "name"), Get(item, "Name")), PyStr("")).v)

ItemSchooling(item) == PyTruthy(GetOr(item, "schooling", PyBool(FALSE)))

ItemMinGroupSize(item) ==
    LET declared == GetOr(item, "min_group_size",
                          GetOr(item, "min_group", GetOr(item, "minGroup", PyNum(1))))
    IN  IF PyInt(declared) = Raised
        THEN (IF ItemSchooling(item) THEN 6 ELSE 1)
        ELSE PyInt(declared).v

Normalize(item) ==
    LET compat_raw == PyOr(PyOr(Get(item, "compatibility"), Get(item, "compat")), PyList(<<>>))
        min_tank_size == PyOr(get_num(Get(item, "min_tank_size"), PyNone),
                              get_num(Get(item, "minTankSize"), PyNone))
        adult_size == PyOr(get_num(Get(item, "adult_size"),
                                   get_num(Get(item, "avg_size"), PyNone)),
                           get_num(Get(item, "avg_size"), PyNone))
    IN  [id |-> ItemId(item),
         name |-> ItemName(item),
         compatibility |-> [k \in DOMAIN compat_raw.v |-> PyStrOf(compat_raw.v[k])],
         min_tank_size |-> min_tank_size,
         adult_size |-> adult_size,
         temperature |-> get_range(item, "temperature", DefaultTemperature),
         ph |-> get_range(item, "ph", DefaultPh),
         hardness |-> get_range(item, "hardness", DefaultHardness),
         temperament |-> PyOr(PyOr(Get(item, "temperament"), Get(item, "behavior")),
                              PyStr("Unknown")).v,
         schooling |-> ItemSchooling(item),
         min_group_size |-> ItemMinGroupSize(item)]

load_fish_data(raw) ==
    LET Kept(item) == ItemId(item) # "" /\ ItemName(item) # ""
        kept == SelectSeq(raw, Kept)
    IN  [k \in DOMAIN kept |-> Normalize(kept[k])]

\* {f["id"]: f for f in fishes_all}: the last record with an id wins
HasId(fishes_all, fid) == \E k \in DOMAIN fishes_all : fishes_all[k].id = fid
id_map(fishes_all, fid) ==
    LET last == CHOOSE k \in DOMAIN fishes_all :
                    /\ fishes_all[k].id = fid
                    /\ \A l \in DOMAIN fishes_all : fishes_all[l].id = fid => l <= k
    IN  fishes_all[last]

-----------------------------------------------------------------------------
(* The selection resolver of compute() and download_report() *)

\* as ParseCount, but without max(1, ...)
ParseCountNoFloor(count_str) ==
    LET parsed == IntOfText(IF count_str = <<>> THEN <<"1">> ELSE count_str)
    IN  IF parsed = Raised THEN 1 ELSE parsed.v

\* max(1, int(count_str or "1")), and 1 when int() raises
ParseCount(count_str) ==
    LET parsed == IntOfText(IF count_str = <<>> THEN <<"1">> ELSE count_str)
    IN  IF parsed = Raised THEN 1 ELSE Max2(1, parsed.v)

Repeat(x, n) == [k \in 1..n |-> x]

\* for fid, count_str in zip(selected_ids, selected_counts): ...
RECURSIVE ResolveFrom(_, _, _, _, _)
ResolveFrom(fishes_all, selected_ids, selected_counts, k, acc) ==
    IF k > Min2(Len(selected_ids), Len(selected_counts)) THEN acc
    ELSE LET fid == selected_ids[k]
             base == id_map(fishes_all, fid)
             count == ParseCount(selected_counts[k])
             fish_copy == [count |-> count] @@ base
         IN  IF HasId(fishes_all, fid)
             THEN ResolveFrom(fishes_all, selected_ids, selected_counts, k + 1,
                      [selected_species |-> Append(acc.selected_species, fish_copy),
                       expanded |-> acc.expanded \o Repeat(base, count)])
             ELSE ResolveFrom(fishes_all, selected_ids, selected_counts, k + 1, acc)

Resolve(fishes_all, selected_ids, selected_counts) ==
    ResolveFrom(fishes_all, selected_ids, selected_counts, 1,
                [selected_species |-> <<>>, expanded |-> <<>>])

Overlaps(selected_species) ==
    [temperature |-> compute_range_overlap([k \in DOMAIN selected_species |->
                                              selected_species[k].temperature]),
     ph |-> compute_range_overlap([k \in DOMAIN selected_species |-> selected_species[k].ph]),
     hardness |-> compute_range_overlap([k \in DOMAIN selected_species |->
                                           selected_species[k].hardness])]

-----------------------------------------------------------------------------------------------------------------------------------------------------
(* The requests of one session against one catalog file *)

Tetra(group) ==
    [id |-> PyStr("1"), name |-> PyStr("Neon Tetra"),
     compatibility |-> PyList(<<PyStr("2")>>),
     schooling |-> PyBool(TRUE), adult_size |-> PyNum(4),
     temperature |-> PyList(<<PyNum(200), PyNum(240)>>)] @@ group

\* how a raw item declares its group size
GroupDeclarations ==
    {<<>>,
     [min_group_size |-> PyNum(6)],
     [min_group |-> PyText(<<"x">>)],
     [minGroup |-> PyNum(0)]}

Betta(compat) ==
    [ID |-> PyNum(2), Name |-> PyStr("Betta"), compat |-> PyList(compat),
     behavior |-> PyStr("Aggressive"), minTankSize |-> PyText(<<"2", "0">>),
     temperature_min |-> PyNum(250), temperature_max |-> PyNum(280)]

Nameless == [id |-> PyStr("3"), name |-> PyStr(" ")]

FishFiles ==
    {<<Tetra(g), Betta(<<PyNum(1)>>), Nameless>> : g \in GroupDeclarations}
    \cup {<<Tetra(<<>>), Betta(<<>>), Nameless>>,
          <<Betta(<<PyNum(1)>>), Tetra(<<>>), Betta(<<>>)>>}

FormIdValues == {"1", "2", "9"}
FormCountValues == {<<>>, <<"2">>}
Formats == {"csv", "pdf", "xml"}
FormIds == SeqsUpTo(FormIdValues, MaxForm)
FormCounts == SeqsUpTo(FormCountValues, MaxForm)

\* the other fields a form may carry: a tank profile (temperature and pH in
\* tenths, volume in litres, tank type); compute reads none of them
NoProfile == [supplied |-> FALSE]
Profiles ==
    {NoProfile,
     [supplied |-> TRUE, temperature |-> 300, ph |-> 70, volume |-> 1000,
      tank_type |-> "community"],
     [supplied |-> TRUE, temperature |-> 230, ph |-> 90, volume |-> 1000,
      tank_type |-> "species-only"]}

-----------------------------------------------------------------------------
(* The handlers.  Both resolve the form and, unless the selection is       *)
(* empty, run the same stages in the same order; ran lists the stages a    *)
(* request went through.                                                   *)

NoReport == [kind |-> "none"]
NoResponse == [kind |-> "none", ran |-> {}]

\* the stages after the resolver, on its result r
StagesOn(r, m, overlaps) ==
    IF r.selected_species = <<>>
    THEN [ran |-> {}, fishes |-> <<>>]
    ELSE [ran |-> {"matrix", "overlaps", "volume", "warnings"},
          fishes |-> r.selected_species,
          matrix |-> m,
          overlaps |-> overlaps,
          tank_l |-> estimate_tank_size_litres(r.expanded),
          tank_gal |-> TankGal(estimate_tank_size_litres(r.expanded)),
          warnings |-> collect_warnings(r.selected_species, m, overlaps)]

\* the resolver, then the stages; each intermediate result is bound once
Stages(file, selected_ids, selected_counts) ==
    CHOOSE st \in
        {StagesOn(r, pairwise_compatibility_matrix(r.selected_species),
                  Overlaps(r.selected_species)) :
            r \in {Resolve(fishes_all, selected_ids, selected_counts) :
                     fishes_all \in {load_fish_data(file)}}} : TRUE

\* as ComputePost without the gate on an empty selection
ComputePostUngated(selected_ids, selected_counts) ==
    \E st \in {Stages(fish_file, selected_ids, selected_counts)} :
      /\ session' = [kind |-> "report",
                     selected_ids |-> selected_ids,
                     selected_counts |-> selected_counts,
                     fishes |-> [k \in DOMAIN st.fishes |->
                                   [id |-> st.fishes[k].id,
                                    name |-> st.fishes[k].name,
                                    count |-> st.fishes[k].count]]]
      /\ response' = [kind |-> "result",
                      ran |-> st.ran \cup {"score"},
                      selected_ids |-> selected_ids,
                      selected_counts |-> selected_counts]

\* POST /compute
ComputePost(selected_ids, selected_counts) ==
    \E st \in {Stages(fish_file, selected_ids, selected_counts)} :
      IF st.fishes = <<>>
      THEN /\ response' = [kind |-> "error", ran |-> st.ran,
                           selected_ids |-> selected_ids,
                           selected_counts |-> selected_counts]
           /\ UNCHANGED session
      ELSE \E sc \in {compute_score(st.matrix, Len(st.fishes))} :
           /\ session' = [kind |-> "report",
                          selected_ids |-> selected_ids,
                          selected_counts |-> selected_counts,
                          fishes |-> [k \in DOMAIN st.fishes |->
                                        [id |-> st.fishes[k].id,
                                         name |-> st.fishes[k].name,
                                         count |-> st.fishes[k].count]],
                          tank_l |-> st.tank_l,
                          tank_gal |-> st.tank_gal,
                          score |-> sc]
           /\ response' = [kind |-> "result", score |-> sc,
                           selected_ids |-> selected_ids,
                           selected_counts |-> selected_counts]
                          @@ [st EXCEPT !.ran = @ \cup {"score"}]

\* GET /compute
ComputeGet ==
    /\ response' = [kind |-> "form", ran |-> {},
                    selected_ids |-> IF session.kind = "report"
                                     THEN session.selected_ids ELSE <<>>,
                    selected_counts |-> IF session.kind = "report"
                                        THEN session.selected_counts ELSE <<>>]
    /\ UNCHANGED session

\* POST /download_report; reportlab tells whether the import at start-up succeeded
DownloadReport(fmt, selected_ids, selected_counts, reportlab) ==
    \E st \in {Stages(fish_file, selected_ids, selected_counts)} :
      /\ UNCHANGED session
      /\ response' =
           IF st.fishes = <<>>
           THEN [kind |-> "redirect", ran |-> st.ran,
                 flash |-> "No fishes selected for download."]
           ELSE IF fmt = "csv" THEN [kind |-> "csv"] @@ st
           ELSE IF fmt = "pdf"
           THEN IF ~reportlab
                THEN [kind |-> "redirect", ran |-> st.ran,
                      flash |-> "PDF library not available on server; downloaded CSV instead."]
                ELSE [kind |-> "pdf"] @@ st
           ELSE [kind |-> "unknown format", ran |-> st.ran]

NoRequest == [route |-> "none"]

IdleServer ==
    fish_file = <<>> /\ session = NoReport /\ response = NoResponse /\ request = NoRequest
IdleMatrix == fishes = <<>> /\ matrix = <<>> /\ score = 0
IdleOverlap == ranges = <<>> /\ overlap = <<>>
IdleTank == fishes_expanded = <<>> /\ tank_l = 0 /\ prev_tank_l = 0
IdleResolver == form = <<>> /\ resolved = <<>>
IdleWarnings == selection = <<>> /\ shared = <<>> /\ warnings = <<>>

Init ==
    /\ fish_file \in FishFiles
    /\ session = NoReport
    /\ response = NoResponse
    /\ request = NoRequest
    /\ pc = "serving"
    /\ IdleMatrix /\ IdleOverlap /\ IdleTank /\ IdleResolver /\ IdleWarnings

Pure == <<MatrixVars, OverlapVars, TankVars, ResolverVars, WarningVars, pc>>

PostCompute ==
    /\ \E selected_ids \in FormIds, selected_counts \in FormCounts :
          /\ ComputePost(selected_ids, selected_counts)
          /\ \E profile \in Profiles :
                request' = [route |-> "POST /compute", selected_ids |-> selected_ids,
                            selected_counts |-> selected_counts, profile |-> profile]
    /\ UNCHANGED <<fish_file, Pure>>

GetCompute ==
    /\ ComputeGet
    /\ request' = [route |-> "GET /compute"]
    /\ UNCHANGED <<fish_file, Pure>>

PostDownload ==
    /\ \E fmt \in Formats, selected_ids \in FormIds, selected_counts \in FormCounts :
         \E reportlab \in IF fmt = "pdf" THEN BOOLEAN ELSE {TRUE} :
            /\ DownloadReport(fmt, selected_ids, selected_counts, reportlab)
            /\ request' = [route |-> "POST /download_report", format |-> fmt,
                           selected_ids |-> selected_ids,
                           selected_counts |-> selected_counts]
    /\ UNCHANGED <<fish_file, Pure>>

Next == PostCompute \/ GetCompute \/ PostDownload

Spec == Init /\ [][Next]_vars

-----------------------------------------------------------------------------
(* pairwise_compatibility_matrix and the score on every selection of up to *)
(* MaxRows rows over three species with any compatibility lists            *)

MatrixIds == {"1", "2", "3"}

RECURSIVE ListOf(_)
ListOf(S) ==
    IF S = {} THEN <<>>
    ELSE LET x == CHOOSE y \in S : TRUE IN <<x>> \o ListOf(S \ {x})

InitMatrix ==
    /\ \E compat \in [MatrixIds -> SUBSET MatrixIds], ids \in SeqsUpTo(MatrixIds, MaxRows) :
          fishes = [k \in DOMAIN ids |->
                      [id |-> ids[k], compatibility |-> ListOf(compat[ids[k]])]]
    /\ matrix = <<>> /\ score = 0
    /\ pc = "input"
    /\ IdleServer /\ IdleOverlap /\ IdleTank /\ IdleResolver /\ IdleWarnings

BuildMatrix ==
    /\ pc = "input"
    /\ matrix' = pairwise_compatibility_matrix(fishes)
    /\ pc' = "built"
    /\ UNCHANGED <<ServerVars, fishes, score, OverlapVars, TankVars, ResolverVars, WarningVars>>

Score ==
    /\ pc = "built"
    /\ score' = compute_score(matrix, Len(fishes))
    /\ pc' = "scored"
    /\ UNCHANGED <<ServerVars, fishes, matrix, OverlapVars, TankVars, ResolverVars, WarningVars>>

NextMatrix == BuildMatrix \/ Score

SpecMatrix == InitMatrix /\ [][NextMatrix]_vars

-----------------------------------------------------------------------------
(* Claims about the matrix and the score *)

Built == pc \in {"built", "scored"}
Rows == 1..Len(fishes)
Lists(i, j) == fishes[j].id \in Range(fishes[i].compatibility)
UpperCount(v) ==
    Cardinality({p \in Rows \X Rows : p[1] < p[2] /\ matrix[p[1]][p[2]] = v})

\* C1: the matrix is symmetric, matrix[i][j] = matrix[j][i] for all rows i, j
\* (rows that repeat a species included), and its diagonal is "self".
C1_MatrixSymmetric ==
    Built => \A i \in Rows : /\ matrix[i][i] = "self"
                             /\ \A j \in Rows : matrix[i][j] = matrix[j][i]

\* three rows, two of them the same species, and a one-way listing
C1_Witness ==
    /\ Built /\ Len(fishes) = 3
    /\ fishes[1].id = fishes[2].id
    /\ Lists(1, 3) /\ ~Lists(3, 1)
    /\ matrix[1][3] = "semi-compatible"

\* C2: off the diagonal a cell is "compatible" exactly when each row's id is in
\* the other's list, "semi-compatible" exactly when one of the two is, and
\* "incompatible" exactly when neither is; no cell holds anything else.
C2_CellClassification ==
    Built => \A i \in Rows : \A j \in Rows \ {i} :
        /\ matrix[i][j] \in {"compatible", "semi-compatible", "incompatible"}
        /\ matrix[i][j] = "compatible" <=> (Lists(i, j) /\ Lists(j, i))
        /\ matrix[i][j] = "semi-compatible" <=> (Lists(i, j) # Lists(j, i))
        /\ matrix[i][j] = "incompatible" <=> (~Lists(i, j) /\ ~Lists(j, i))

\* a matrix holding all three classifications
C2_Witness ==
    /\ Built /\ Len(fishes) = 3
    /\ matrix[1][2] = "compatible"
    /\ matrix[1][3] = "semi-compatible"
    /\ matrix[2][3] = "incompatible"

\* 100 * (compatiblePairs + 0.5 * semiCompatiblePairs) / (n(n-1)/2) as the
\* fraction Weighted / Pairs
Weighted == 100 * (2 * UpperCount("compatible") + UpperCount("semi-compatible"))
Pairs == Len(fishes) * (Len(fishes) - 1)

TwoRowExamples ==
    Len(fishes) = 2 =>
        /\ (Lists(1, 2) /\ Lists(2, 1)) => score = 100
        /\ (Lists(1, 2) # Lists(2, 1)) => score = 50
        /\ (~Lists(1, 2) /\ ~Lists(2, 1)) => score = 0

\* C4 as claimed: for n >= 2 rows the score is the quotient rounded to the
\* nearest integer, over the upper triangle; 100, 50 and 0 for two rows;
\* always in 0..100.
C4_ScoreRounded ==
    (pc = "scored" /\ Len(fishes) >= 2) =>
        /\ 2 * score * Pairs - 2 * Weighted <= Pairs
        /\ 2 * Weighted - 2 * score * Pairs <= Pairs
        /\ score \in 0..100
        /\ TwoRowExamples

\* C4, amended: for n >= 2 rows the score is the quotient truncated to an
\* integer (rounded down), over the upper triangle; 100, 50 and 0 for two
\* rows; always in 0..100.
C4_ScoreTruncated ==
    (pc = "scored" /\ Len(fishes) >= 2) =>
        /\ score * Pairs <= Weighted
        /\ Weighted < (score + 1) * Pairs
        /\ score \in 0..100
        /\ TwoRowExamples

\* three rows with one one-way listing among them: 16.67 gives 16
C4_Witness ==
    /\ pc = "scored" /\ Len(fishes) = 3
    /\ UpperCount("semi-compatible") = 1 /\ UpperCount("compatible") = 0
    /\ score = 16

-----------------------------------------------------------------------------
(* compute_range_overlap on every list of up to MaxRanges intervals with   *)
(* ends in 0..MaxRangeVal (an interval may have low > high), and on the    *)
(* three temperature ranges of the documented scenario; the list is then   *)
(* reordered, and intervals it holds are added again.                      *)

Intervals == (0..MaxRangeVal) \X (0..MaxRangeVal)
Scenario == <<<<20, 24>>, <<23, 27>>, <<26, 30>>>>

InitOverlap ==
    /\ ranges \in (SeqsUpTo(Intervals, MaxRanges) \ {<<>>}) \cup {Scenario}
    /\ overlap = <<>>
    /\ pc = "input"
    /\ IdleServer /\ IdleMatrix /\ IdleTank /\ IdleResolver /\ IdleWarnings

OverlapFrame ==
    UNCHANGED <<ServerVars, MatrixVars, TankVars, ResolverVars, WarningVars>>

Intersect ==
    /\ pc = "input"
    /\ overlap' = compute_range_overlap(ranges)
    /\ pc' = "done"
    /\ UNCHANGED ranges
    /\ OverlapFrame

\* the same intervals with two neighbours swapped
Reorder ==
    /\ pc = "done"
    /\ \E k \in 1..(Len(ranges) - 1) :
          ranges' = [ranges EXCEPT ![k] = ranges[k + 1], ![k + 1] = ranges[k]]
    /\ overlap' = compute_range_overlap(ranges')
    /\ UNCHANGED pc
    /\ OverlapFrame

\* a row that repeats a species brings its interval again
AddAgain ==
    /\ pc = "done"
    /\ Len(ranges) <= MaxRanges
    /\ \E k \in DOMAIN ranges : ranges' = Append(ranges, ranges[k])
    /\ overlap' = compute_range_overlap(ranges')
    /\ UNCHANGED pc
    /\ OverlapFrame

NextOverlap == Intersect \/ Reorder \/ AddAgain

SpecOverlap == InitOverlap /\ [][NextOverlap]_vars

Lows == {ranges[k][1] : k \in DOMAIN ranges}
Highs == {ranges[k][2] : k \in DOMAIN ranges}

\* C5: the result is (max of the lows, min of the highs, max <= min), and a
\* reordering of the list or adding an interval of the list again leaves the
\* result as it was; [20,24],[23,27],[26,30] gives (26, 24, false).
C5_OverlapOfSet ==
    /\ [](pc = "done" =>
            /\ overlap[1] \in Lows /\ \A x \in Lows : x <= overlap[1]
            /\ overlap[2] \in Highs /\ \A x \in Highs : overlap[2] <= x
            /\ overlap[3] = (overlap[1] <= overlap[2])
            /\ Len(overlap) = 3
            /\ Range(ranges) = Range(Scenario) => overlap = <<26, 24, FALSE>>)
    /\ [][pc = "done" => overlap' = overlap]_vars

\* the scenario's intervals, in another order and with one of them twice
C5_Witness ==
    /\ pc = "done"
    /\ Len(ranges) = 4 /\ Range(ranges) = Range(Scenario)
    /\ ranges[1] = <<26, 30>>
    /\ overlap = <<26, 24, FALSE>>

-----------------------------------------------------------------------------
(* estimate_tank_size_litres on every list of up to MaxFish individuals,   *)
(* each a record the normalizer makes of a raw item; individuals are then  *)
(* added one at a time.                                                    *)

\* how a raw item declares its tank size: normalized to None, 0.0, 40.0, 2.0
TankDeclarations ==
    {<<>>,
     [minTankSize |-> PyNum(0)],
     [min_tank_size |-> PyNum(40)],
     [min_tank_size |-> PyText(<<"x">>), minTankSize |-> PyText(<<"2">>)]}

\* how a raw item declares its adult size: normalized to None, 0.0, 10.0, 1.0
AdultDeclarations ==
    {<<>>,
     [avg_size |-> PyNum(0)],
     [adult_size |-> PyText(<<"x">>), avg_size |-> PyNum(10)],
     [adult_size |-> PyNum(1)]}

Kinds ==
    {[id |-> PyStr("1"), name |-> PyStr("Betta")],
     [id |-> PyStr("2"), name |-> PyStr("Betta"), temperament |-> PyStr("Semi-aggressive")],
     [id |-> PyStr("3"), name |-> PyStr("Goldfish"), temperament |-> PyStr("Peaceful")]}

Individuals ==
    {Normalize(kind @@ tank @@ adult) :
        kind \in Kinds, tank \in TankDeclarations, adult \in AdultDeclarations}

InitTank ==
    /\ fishes_expanded \in SeqsUpTo(Individuals, MaxFish)
    /\ tank_l = 0 /\ prev_tank_l = 0
    /\ pc = "input"
    /\ IdleServer /\ IdleMatrix /\ IdleOverlap /\ IdleResolver /\ IdleWarnings

TankFrame ==
    UNCHANGED <<ServerVars, MatrixVars, OverlapVars, ResolverVars, WarningVars>>

Estimate ==
    /\ pc = "input"
    /\ tank_l' = estimate_tank_size_litres(fishes_expanded)
    /\ pc' = "done"
    /\ UNCHANGED <<fishes_expanded, prev_tank_l>>
    /\ TankFrame

AddFish ==
    /\ pc \in {"done", "added"}
    /\ Len(fishes_expanded) < MaxFish
    /\ \E f \in Individuals : fishes_expanded' = Append(fishes_expanded, f)
    /\ prev_tank_l' = tank_l
    /\ tank_l' = estimate_tank_size_litres(fishes_expanded')
    /\ pc' = "added"
    /\ TankFrame

NextTank == Estimate \/ AddFish

SpecTank == InitTank /\ [][NextTank]_vars

\* C6: adding an individual never lowers the recommendation (stated for the
\* lists the handlers estimate, which hold at least one individual).
C6_Monotone ==
    (pc = "added" /\ Len(fishes_expanded) >= 2) => tank_l >= prev_tank_l

Estimated == pc \in {"done", "added"}

RECURSIVE SumUpTo(_, _)
SumUpTo(F(_), n) == IF n = 0 THEN 0 ELSE SumUpTo(F, n - 1) + F(n)

\* x200 / 200 rounded up to a multiple of 5 is t
RoundsUpTo(x200, t) == t % 5 = 0 /\ x200 <= 200 * t /\ 200 * (t - 5) < x200

\* max(base, extra + 0.15 * base), in 1/200, of the claim, given which sizes
\* count as declared and which as present
Recommended(Declared(_), Present(_)) ==
    LET sizes == {fishes_expanded[k].min_tank_size.v :
                    k \in {l \in DOMAIN fishes_expanded :
                             Declared(fishes_expanded[l].min_tank_size)}}
        base == IF sizes = {} THEN 10 ELSE CHOOSE x \in sizes : \A y \in sizes : y <= x
        Part(k) ==
            LET f == fishes_expanded[k]
            IN  (IF Present(f.adult_size) THEN f.adult_size.v ELSE 5)
                * (100 + (IF f.temperament \in {"Aggressive", "Semi-aggressive"} THEN 25 ELSE 0)
                       + (IF f.name \in {"Goldfish", "Oscar"} THEN 60 ELSE 0))
        extra == SumUpTo(Part, Len(fishes_expanded))
    IN  [base |-> base, value |-> Max2(200 * base, extra + 30 * base)]

IsNumber(x) == x.t = "num"
IsNonZero(x) == x.t = "num" /\ x.v # 0

PlainExample ==
    (/\ Len(fishes_expanded) = 1
     /\ fishes_expanded[1].min_tank_size = PyNum(40)
     /\ fishes_expanded[1].adult_size = PyNum(10)
     /\ fishes_expanded[1].temperament = "Unknown"
     /\ fishes_expanded[1].name = "Betta") => tank_l = 40

\* C7 as claimed: the volume is max(base, extra + 0.15 * base) rounded up to a
\* multiple of 5, base the largest declared min_tank_size (10 if none), extra
\* the sum of 0.5 * adult_size (5 when absent) * waste factor; so it is a
\* multiple of 5 and never below base.
C7_VolumeAsClaimed ==
    Estimated =>
        /\ RoundsUpTo(Recommended(IsNumber, IsNumber).value, tank_l)
        /\ tank_l >= Recommended(IsNumber, IsNumber).base
        /\ PlainExample

\* C7, amended: the same, where a min_tank_size of 0 counts as not declared
\* and an adult_size of 0 as absent.
C7_Volume ==
    Estimated =>
        /\ RoundsUpTo(Recommended(IsNonZero, IsNonZero).value, tank_l)
        /\ tank_l >= Recommended(IsNonZero, IsNonZero).base
        /\ PlainExample

\* a small declared tank that the stock outgrows: the buffered extra decides
C7_Witness ==
    /\ Estimated /\ Len(fishes_expanded) = 2
    /\ Recommended(IsNonZero, IsNonZero).base = 2
    /\ Recommended(IsNonZero, IsNonZero).value > 200 * 5
    /\ \E k \in DOMAIN fishes_expanded : fishes_expanded[k].adult_size = PyNum(0)
    /\ tank_l > 5

-----------------------------------------------------------------------------
(* The resolver on every form of up to MaxEntries ids and up to MaxEntries *)
(* count texts                                                             *)

EntryIds == FormIdValues \cup {"3"}
CountTexts ==
    {<<>>, <<"x">>, <<"0">>, <<"-", "2">>, <<"2">>, <<" ", "3">>, <<"1", "2">>, <<"2", "x">>}

ResolverFiles ==
    {<<Tetra(<<>>), Betta(<<PyNum(1)>>), Nameless>>,
     <<Betta(<<PyNum(1)>>), Tetra(<<>>), Betta(<<>>)>>}

InitResolver ==
    /\ fish_file \in ResolverFiles
    /\ form \in [selected_ids : SeqsUpTo(EntryIds, MaxEntries),
                 selected_counts : SeqsUpTo(CountTexts, MaxEntries)]
    /\ resolved = <<>>
    /\ pc = "input"
    /\ session = NoReport /\ response = NoResponse /\ request = NoRequest
    /\ IdleMatrix /\ IdleOverlap /\ IdleTank /\ IdleWarnings

ResolveForm ==
    /\ pc = "input"
    /\ resolved' = Resolve(load_fish_data(fish_file), form.selected_ids, form.selected_counts)
    /\ pc' = "done"
    /\ UNCHANGED <<ServerVars, MatrixVars, OverlapVars, TankVars, WarningVars, form>>

NextResolver == ResolveForm

SpecResolver == InitResolver /\ [][NextResolver]_vars

\* the count the claim gives each of the model's count texts
ClaimedCount(text) ==
    CASE text = <<"2">> -> 2
      [] text = <<" ", "3">> -> 3
      [] text = <<"1", "2">> -> 12
      [] OTHER -> 1

Catalog == load_fish_data(fish_file)
CatalogIds == {Catalog[k].id : k \in DOMAIN Catalog}
CatalogRecord(fid) == id_map(Catalog, fid)

\* the entries of the form, and those whose id is in the catalog, in order
Entries == 1..Min2(Len(form.selected_ids), Len(form.selected_counts))
InCatalog(k) == form.selected_ids[k] \in CatalogIds
KeptEntries == SelectSeq([k \in Entries |-> k], InCatalog)

\* the number of individuals of the rows before row r
Before(r) ==
    LET CountOf(q) == resolved.selected_species[q].count IN SumUpTo(CountOf, r - 1)

\* C9: the selection is the entries whose id is in the catalog, in order,
\* repeated ids as separate rows; a row's count is the parsed integer when the
\* text parses to one >= 1, else 1; the expanded list holds each row's catalog
\* record count times, in row order, so its length is the sum of the counts.
C9_Resolver ==
    pc = "done" =>
        LET rows == resolved.selected_species IN
        /\ Len(rows) = Len(KeptEntries)
        /\ \A r \in DOMAIN rows :
             /\ rows[r] = [count |-> ClaimedCount(form.selected_counts[KeptEntries[r]])]
                          @@ CatalogRecord(form.selected_ids[KeptEntries[r]])
             /\ \A q \in 1..rows[r].count :
                  resolved.expanded[Before(r) + q] = CatalogRecord(rows[r].id)
        /\ Len(resolved.expanded) = Before(Len(rows) + 1)

\* the same species twice, once with a negative count and once with " 3"
C9_Witness ==
    /\ pc = "done"
    /\ form.selected_ids = <<"2", "2">>
    /\ form.selected_counts = <<<<"-", "2">>, <<" ", "3">>>>
    /\ Len(resolved.selected_species) = 2
    /\ resolved.selected_species[1].count = 1
    /\ resolved.selected_species[2].count = 3
    /\ Len(resolved.expanded) = 4

-----------------------------------------------------------------------------
(* Claims about the handlers *)

\* C3: a validated selection of at most one row scores exactly 100.
C3_SingleScores100 ==
    (response.kind = "result" /\ Len(response.fishes) <= 1) => response.score = 100

\* req posts a form none of whose entries names a catalog id
EmptySelection(req) ==
    /\ req.route \in {"POST /compute", "POST /download_report"}
    /\ \A k \in 1..Min2(Len(req.selected_ids), Len(req.selected_counts)) :
          req.selected_ids[k] \notin CatalogIds

\* C8: a request whose resolved selection is empty ends in the input error
\* outcome, having run none of the stages and produced no report, and leaves
\* the stored last report as it was.
C8_EmptySelectionRejected ==
    [][EmptySelection(request') =>
          /\ session' = session
          /\ response'.ran = {}
          /\ request'.route = "POST /compute" => response'.kind = "error"
          /\ request'.route = "POST /download_report" =>
               (response'.kind = "redirect"
                /\ response'.flash = "No fishes selected for download.")]_vars

\* a report is stored, then a form naming only an unknown id is posted
C8_Witness ==
    /\ session.kind = "report"
    /\ request.route = "POST /compute"
    /\ request.selected_ids = <<"9">> /\ request.selected_counts = <<<<"2">>>>
    /\ response.kind = "error"

\* the raw item a row comes from: the last of the file with the row's id
RawOf(fid) ==
    LET last == CHOOSE k \in DOMAIN fish_file :
                    /\ ItemId(fish_file[k]) = fid
                    /\ \A l \in DOMAIN fish_file : ItemId(fish_file[l]) = fid => l <= k
    IN  fish_file[last]

GroupKeys == {"min_group_size", "min_group", "minGroup"}
NoGroupSize(item) ==
    \/ GroupKeys \cap DOMAIN item = {}
    \/ \E key \in GroupKeys \cap DOMAIN item : item[key] = PyText(<<"x">>)

\* C10: every row's min_group_size is an integer >= 1; it is 6 for a schooling
\* species and 1 otherwise when the raw item declares no group size or one
\* that does not parse; so a schooling row without a declared group size and
\* with a count below 6 has its group-size warning.
C10_GroupSizeDefault ==
    response.kind = "result" =>
        \A r \in DOMAIN response.fishes :
            LET row == response.fishes[r] IN
            /\ row.min_group_size >= 1
            /\ NoGroupSize(RawOf(row.id)) =>
                 /\ row.min_group_size = IF row.schooling THEN 6 ELSE 1
                 /\ (row.schooling /\ row.count < 6) =>
                      \E w \in DOMAIN response.warnings :
                          response.warnings[w] =
                              [kind |-> "group", name |-> row.name,
                               min_group |-> 6, count |-> row.count]

-----------------------------------------------------------------------------
(* The score of a request that carries a tank profile *)

\* the documented table of named-species interaction rules is a set of pairs
\* of species ids
RulePairs == {{"1", "2"}}

Clamp(x, lo, hi) == Max2(lo, Min2(x, hi))

\* the documented strategy B in half points, on the selected rows fs, the
\* profile p and the interaction rules
StrategyB(fs, p, rules) ==
    LET rows == DOMAIN fs
        Has(t) == \E k \in rows : fs[k].temperament \in t
        HasOther(k, t) == \E l \in rows : l # k /\ fs[l].temperament \in t
        With(k, t) == fs[k].temperament \in t
        Outside(x, r) == x < r[1] \/ x > r[2]
        Adult(k) == IF fs[k].adult_size.t = "num" THEN fs[k].count * fs[k].adult_size.v ELSE 0
        load == SumUpTo(Adult, Len(fs))
        stocking == IF load > p.volume THEN Min2(80, load - p.volume) ELSE 0
        temperature == 16 * Cardinality({k \in rows : Outside(p.temperature, fs[k].temperature)})
        ph == 16 * Cardinality({k \in rows : Outside(p.ph, fs[k].ph)})
        volume == 12 * Cardinality({k \in rows : fs[k].min_tank_size.t = "num"
                                                  /\ fs[k].min_tank_size.v > p.volume})
        aggressive == IF \E k \in rows : With(k, {"Aggressive"}) /\ HasOther(k, {"Peaceful"})
                      THEN 50 ELSE 0
        semi == IF \E k \in rows : With(k, {"Semi-aggressive"}) /\ HasOther(k, {"Peaceful"})
                THEN 20 ELSE 0
        named == 20 * Cardinality({r \in rules : r \subseteq {fs[k].id : k \in rows}})
        alone == IF p.tank_type = "species-only" /\ Len(fs) > 1 THEN 20 ELSE 0
        community == IF p.tank_type = "community" /\ Has({"Aggressive"}) THEN 20 ELSE 0
    IN  Clamp(200 - (stocking + temperature + ph + volume + aggressive + semi
                     + named + alone + community), 0, 200)

\* C11: when a tank profile accompanies the selection the score is the one of
\* strategy B (100 less the additive penalties, clamped to 0..100 at the
\* end), whatever the table of interaction rules; strategy A is only for a
\* selection without a profile.
C11_ProfileScoredByPenalties ==
    (request.route = "POST /compute" /\ response.kind = "result"
     /\ request.profile.supplied)
    => \E rules \in SUBSET RulePairs :
          2 * response.score = StrategyB(response.fishes, request.profile, rules)

-----------------------------------------------------------------------------
(* collect_warnings on every selection of up to MaxSelected rows over three *)
(* species, with every matrix the builder can give those rows and every     *)
(* combination of feasible and infeasible overlaps                          *)

MaxSelected == 3

SpeciesRows ==
    {[id |-> "1", name |-> "Neon Tetra", temperament |-> "Peaceful",
      schooling |-> TRUE, min_group_size |-> 6],
     [id |-> "2", name |-> "Betta", temperament |-> "Aggressive",
      schooling |-> FALSE, min_group_size |-> 6],
     [id |-> "4", name |-> "Oscar", temperament |-> "Semi-aggressive",
      schooling |-> TRUE, min_group_size |-> 2]}

SelectedCounts == {1, 6}

SelectedRows == {[count |-> c] @@ r : c \in SelectedCounts, r \in SpeciesRows}

Classes == {"compatible", "semi-compatible", "incompatible"}

\* the unordered pairs of names of the rows of sel
NamePairs(sel) ==
    {SortedPair(sel[i].name, sel[j].name) : i, j \in DOMAIN sel}

\* the matrix of sel when cls classifies each pair of species; a species
\* either lists itself or does not
MatrixOf(sel, cls) ==
    [i \in DOMAIN sel |->
       [j \in DOMAIN sel |->
          IF i = j THEN "self" ELSE cls[SortedPair(sel[i].name, sel[j].name)]]]

OverlapResults == {<<250, 240, FALSE>>, <<220, 240, TRUE>>}

InitWarnings ==
    /\ selection \in SeqsUpTo(SelectedRows, MaxSelected) \ {<<>>}
    /\ \E cls \in [NamePairs(selection) -> Classes] :
          /\ \A p \in NamePairs(selection) : p[1] = p[2] => cls[p] # "semi-compatible"
          /\ matrix = MatrixOf(selection, cls)
    /\ shared \in [temperature : OverlapResults, ph : OverlapResults,
                   hardness : OverlapResults]
    /\ warnings = <<>>
    /\ pc = "input"
    /\ fishes = <<>> /\ score = 0
    /\ IdleServer /\ IdleOverlap /\ IdleTank /\ IdleResolver

CollectWarnings ==
    /\ pc = "input"
    /\ warnings' = collect_warnings(selection, matrix, shared)
    /\ pc' = "done"
    /\ UNCHANGED <<ServerVars, MatrixVars, OverlapVars, TankVars, ResolverVars,
                   selection, shared>>

NextWarnings == CollectWarnings

SpecWarnings == InitWarnings /\ [][NextWarnings]_vars

Selected == DOMAIN selection
Of(kind) == {k \in DOMAIN warnings : warnings[k].kind = kind}

KindRank(kind) ==
    CASE kind = "group" -> 1
      [] kind = "temperature" -> 2
      [] kind = "ph" -> 3
      [] kind = "hardness" -> 4
      [] kind = "incompatible" -> 5
      [] kind = "aggressive" -> 6

\* the rows that are schooling and below their group size, and the
\* aggressive ones
Short == {k \in Selected : selection[k].schooling
                            /\ selection[k].count < selection[k].min_group_size}
Hot == {k \in Selected : ContainsAggressive(selection[k].temperament)}

\* the place of row k among the rows of S
PlaceIn(S, k) == Cardinality({l \in S : l <= k})

\* C12: the warnings are, in this order, one group-size warning per schooling
\* row below its group size (in row order, none for another row), the
\* temperature, pH and hardness warnings, each exactly when that overlap is
\* infeasible, at most one incompatible-pairs warning, and at most one
\* multiple-aggressive warning, exactly when more than one row is aggressive,
\* naming those rows in selection order.
C12_WarningsInOrder ==
    pc = "done" =>
      /\ \A k \in DOMAIN warnings : warnings[k].kind \in
             {"group", "temperature", "ph", "hardness", "incompatible", "aggressive"}
      /\ \A k \in 1..(Len(warnings) - 1) :
             KindRank(warnings[k].kind) <= KindRank(warnings[k + 1].kind)
      /\ Cardinality(Of("group")) = Cardinality(Short)
      /\ \A k \in Short :
             warnings[PlaceIn(Short, k)] =
                [kind |-> "group", name |-> selection[k].name,
                 min_group |-> selection[k].min_group_size,
                 count |-> selection[k].count]
      /\ Cardinality(Of("temperature")) = IF shared.temperature[3] THEN 0 ELSE 1
      /\ Cardinality(Of("ph")) = IF shared.ph[3] THEN 0 ELSE 1
      /\ Cardinality(Of("hardness")) = IF shared.hardness[3] THEN 0 ELSE 1
      /\ Cardinality(Of("incompatible")) <= 1
      /\ Cardinality(Of("aggressive")) = IF Cardinality(Hot) > 1 THEN 1 ELSE 0
      /\ \A w \in Of("aggressive") :
             /\ Len(warnings[w].names) = Cardinality(Hot)
             /\ \A k \in Hot : warnings[w].names[PlaceIn(Hot, k)] = selection[k].name

C12_Witness ==
    /\ pc = "done"
    /\ Len(selection) = 3
    /\ Cardinality(Short) = 2
    /\ \E k \in Selected \ Short : selection[k].schooling
    /\ [k \in DOMAIN warnings |-> warnings[k].kind]
         = <<"group", "group", "temperature", "hardness", "incompatible", "aggressive">>

\* the incompatible cells of the upper triangle
Bad == {c \in Selected \X Selected : c[1] < c[2] /\ matrix[c[1]][c[2]] = "incompatible"}
NamesOf(c) == {selection[c[1]].name, selection[c[2]].name}

\* C13: the incompatible-pairs warning is there exactly when some cell of
\* the upper triangle is incompatible, at most once, and lists each unordered
\* pair of names of such a cell exactly once (and nothing else), the two
\* names of a pair in alphabetical order and the pairs in lexicographic
\* order.
C13_IncompatiblePairs ==
    pc = "done" =>
      /\ Cardinality(Of("incompatible")) = IF Bad # {} THEN 1 ELSE 0
      /\ \A w \in Of("incompatible") :
            LET pairs == warnings[w].pairs
            IN  /\ \A c \in Bad :
                      Cardinality({x \in DOMAIN pairs :
                                     {pairs[x][1], pairs[x][2]} = NamesOf(c)}) = 1
                /\ \A x \in DOMAIN pairs :
                      /\ \E c \in Bad : {pairs[x][1], pairs[x][2]} = NamesOf(c)
                      /\ NameRank(pairs[x][1]) <= NameRank(pairs[x][2])
                /\ \A x, y \in DOMAIN pairs :
                      x < y => PairLeq(pairs[x], pairs[y]) /\ pairs[x] # pairs[y]

C13_Witness ==
    /\ pc = "done"
    /\ [k \in Selected |-> selection[k].name] = <<"Oscar", "Betta", "Oscar">>
    /\ Cardinality(Bad) = 3
    /\ \E w \in Of("incompatible") :
          warnings[w].pairs = <<<<"Betta", "Oscar">>, <<"Oscar", "Oscar">>>>

====
